---- MODULE Spec2Model ----
(***************************************************************************)
(* A model of the LETO core: the Entity/Relation fact model (model.py),    *)
(* the typed queries and the resolver base class (query/__init__.py), the  *)
(* in-memory storage with snapshot persistence and its resolver            *)
(* (storage/dummy.py), and the result renderers                            *)
(* (visualization/__init__.py).                                            *)
(*                                                                         *)
(* The code is Python 3.  Three rules of the language decide most of what  *)
(* follows and are modelled as they are:                                   *)
(*   - a class that defines __eq__ and no __hash__ has __hash__ = None:    *)
(*     its instances cannot be members of a set;                           *)
(*   - a class with an abstract method left unimplemented cannot be        *)
(*     instantiated;                                                       *)
(*   - reading an attribute an object does not have raises AttributeError. *)
(***************************************************************************)
EXTENDS Integers, Sequences, FiniteSets, TLC

VARIABLES
    file,   \* the snapshot file /home/coder/leto/data/storage.pickle
    live,   \* whether a DummyStorage instance has been constructed
    mem,    \* self.storage of the live DummyStorage
    asked,  \* identities store() was called with on the live instance, and those it loaded
    last,   \* the last call made and what came out of it
    vis     \* the last evaluation of the renderers

vars == <<file, live, mem, asked, last, vis>>

(***************************** bounds **************************************)

\* number of distinct attribute payloads (**kwargs) a relation may carry
NAttr == 2

\* longest response list handed to the renderers
MaxResp == 2

(***************************** model.py ************************************)

\* Entity.__init__: name, type and the keyword attributes.  The renderers read
\* one keyword attribute, `attrs` (a dict): hasAttrs says it was passed,
\* attrs holds the keys it maps to truthy values.
Entity(n, t, has, keys) ==
    [name |-> n, type |-> t, hasAttrs |-> has, attrs |-> keys]

\* Entity.__str__: f"{name}:{type}"; the keyword attributes are not part of it.
EntityStr(e) == <<e.name, e.type>>

\* Relation.__init__: label, the two entities and the keyword attributes
\* (`attrs` as for Entity; payload stands for any other keyword attribute).
Relation(l, f, t, has, keys, p) ==
    [label |-> l, entity_from |-> f, entity_to |-> t,
     hasAttrs |-> has, attrs |-> keys, payload |-> p]

\* The methods classes Entity and Relation define; neither defines `get`.
ModelMethods == {"__init__", "__str__", "__repr__", "__eq__"}
HasMethod(m) == m \in ModelMethods

\* Relation.__str__: f"({entity_from}) -[{label}]-> ({entity_to})".
RelationStr(r) == <<EntityStr(r.entity_from), r.label, EntityStr(r.entity_to)>>

\* Whether hash(x) succeeds for an argument of store() of class cls: class
\* Relation defines __eq__ and no __hash__, so Python sets Relation.__hash__
\* to None and hash() raises TypeError; a str hashes.
Hashable(cls) == cls # "Relation"

(*********************** query/__init__.py *********************************)

Variants == {"MatchQuery", "WhatQuery", "WhoQuery", "HowManyQuery",
             "WhichQuery", "WhereQuery", "PredictQuery"}

\* The fields of the Query dataclass; a query object has no other attribute.
QueryFields == {"entities", "relations", "attributes", "aggregate", "groupby"}

\* A query as the dataclass constructs it from its three required fields:
\* aggregate and groupby keep their default, "".
Query(v, es, rs, as) ==
    [variant |-> v, entities |-> es, relations |-> rs, attributes |-> as,
     aggregate |-> "", groupby |-> ""]

QueryHas(q, f) == f \in QueryFields

\* QueryResolver declares _resolve abstract.
AbstractMethods == {"_resolve"}

(************************** helpers ****************************************)

Range(s) == {s[i] : i \in 1..Len(s)}

\* list(<iterable over the set S>): the members of S, each once, in the
\* set's iteration order.
RECURSIVE SetToSeq(_)
SetToSeq(S) ==
    IF S = {} THEN <<>>
    ELSE LET x == CHOOSE y \in S : TRUE IN <<x>> \o SetToSeq(S \ {x})

\* What a call comes to: it returns nothing of interest (ok), returns a list
\* of stored items (result), returns None (none), or raises (raise).
Ok == [kind |-> "ok", err |-> "", rels |-> <<>>]
ReturnsNone == [kind |-> "none", err |-> "", rels |-> <<>>]
Result(seq) == [kind |-> "result", err |-> "", rels |-> seq]
Raise(e) == [kind |-> "raise", err |-> e, rels |-> <<>>]

(************************ storage/dummy.py *********************************)

\* The universe of relations handed to store().
EA == Entity("A", "Person", FALSE, {})
EB == Entity("B", "Org", FALSE, {})
Labels == {"works_at", "knows"}
StoreRelations ==
    {Relation(l, EA, EB, FALSE, {}, p) : l \in Labels, p \in 1..NAttr}
    \cup {Relation("works_at", EB, EA, FALSE, {}, p) : p \in 1..NAttr}

\* The classes of object store() is called with: a Relation, or the str
\* that is its string form (store() takes any object; see Hashable).
ArgClasses == {"Relation", "str"}

\* A member of self.storage: the object's class and its string form.
Item(cls, r) == [cls |-> cls, str |-> RelationStr(r)]

\* item.entity_from, item.label, item.entity_to: only a Relation has them.
ItemHasFields(x) == x.cls = "Relation"
FromName(x) == x.str[1][1]
LabelOf(x) == x.str[2]
ToName(x) == x.str[3][1]

Keys(S) == {x.str : x \in S}

\* The snapshot file: missing, unreadable by pickle, or a pickled set.
Missing == [state |-> "missing", content |-> {}]
Corrupt == [state |-> "corrupt", content |-> {}]
Pickled(S) == [state |-> "pickle", content |-> S]

\* How the write in _save can end: the file is written; open() fails and the
\* file is as it was; pickle.dump fails after open(..., "wb") truncated it.
WriteOutcomes == {"written", "open_fails", "dump_fails"}

\* DummyStorage._save under write outcome w: the file afterwards.
SaveFile(S, w) ==
    IF w = "written" THEN Pickled(S)
    ELSE IF w = "open_fails" THEN file
    ELSE Corrupt

\* DummyStorage._load: how the call ends (pickle.load raises UnpicklingError
\* or EOFError on a file that is no pickle), and what self.storage becomes.
LoadOutcome ==
    IF file.state = "missing" THEN Ok
    ELSE IF file.state = "corrupt" THEN Raise("UnpicklingError")
    ELSE Ok

LoadedStorage == IF file.state = "pickle" THEN file.content ELSE {}

NoEntity == Entity("", "", FALSE, {})
NoRelation == Relation("", NoEntity, NoEntity, FALSE, {}, 0)
NoQuery == Query("", <<>>, <<>>, <<>>)

Call(op, cls, x, q, out, w, n) ==
    [op |-> op, cls |-> cls, x |-> x, q |-> q, kind |-> out.kind,
     err |-> out.err, rels |-> out.rels, write |-> w, n |-> n]

\* DummyStorage(): __init__ sets self.storage = set() and calls _load().
\* When _load raises, no instance results and the previous one (if any)
\* stays bound.
Construct ==
    /\ last' = Call("construct", "", NoRelation, NoQuery, LoadOutcome, "", -1)
    /\ IF LoadOutcome.kind = "ok"
       THEN /\ live' = TRUE
            /\ mem' = LoadedStorage
            /\ asked' = Keys(LoadedStorage)
       ELSE UNCHANGED <<live, mem, asked>>
    /\ UNCHANGED <<file, vis>>

\* DummyStorage.store(x) with x of class cls and string form str(r):
\* self.storage.add(x), then self._save().
Store(cls, r) ==
    /\ live
    /\ asked' = asked \cup {RelationStr(r)}
    /\ IF ~Hashable(cls)
       THEN /\ last' = Call("store", cls, r, NoQuery, Raise("TypeError"), "", -1)
            /\ UNCHANGED <<mem, file>>
       ELSE \E w \in WriteOutcomes :
            /\ mem' = mem \cup {Item(cls, r)}
            /\ file' = SaveFile(mem', w)
            /\ last' = Call("store", cls, r, NoQuery,
                            IF w = "written" THEN Ok ELSE Raise("OSError"), w, -1)
    /\ UNCHANGED <<live, vis>>

\* DummyStorage.size: len(self.storage).
Size ==
    /\ live
    /\ last' = Call("size", "", NoRelation, NoQuery, Ok, "", Cardinality(mem))
    /\ UNCHANGED <<file, live, mem, asked, vis>>

\* The methods class DummyQueryResolver defines.
ResolverMethods == {"__init__", "query_match", "query_what", "query_who", "resolve"}

\* DummyQueryResolver(...) can be instantiated only if no abstract method of
\* QueryResolver is left undefined.
Instantiable == AbstractMethods \subseteq ResolverMethods

\* DummyStorage.get_query_resolver(): DummyQueryResolver(self).
GetQueryResolver ==
    /\ live
    /\ last' = Call("get_query_resolver", "", NoRelation, NoQuery,
                    IF Instantiable THEN Ok ELSE Raise("TypeError"), "", -1)
    /\ UNCHANGED <<file, live, mem, asked, vis>>

\* DummyQueryResolver.query_match, iterated to its end over storage S.
query_match(S, q) ==
    IF ~QueryHas(q, "terms") THEN Raise("AttributeError")
    ELSE IF \E x \in S : ~ItemHasFields(x) THEN Raise("AttributeError")
    ELSE LET components == Range(q.terms)
         IN Result(SetToSeq({x \in S : \/ FromName(x) \in components
                                       \/ LabelOf(x) \in components
                                       \/ ToName(x) \in components}))

\* DummyQueryResolver.query_what, iterated to its end over storage S.
query_what(S, q) ==
    IF S = {} THEN Result(<<>>)
    ELSE IF \E x \in S : ~ItemHasFields(x) THEN Raise("AttributeError")
    ELSE IF ~QueryHas(q, "entity") \/ ~QueryHas(q, "relation")
    THEN Raise("AttributeError")
    ELSE Result(SetToSeq({x \in S : FromName(x) = q.entity /\ LabelOf(x) = q.relation}))

\* DummyQueryResolver.query_who, iterated to its end over storage S.
query_who(S, q) ==
    IF S = {} THEN Result(<<>>)
    ELSE IF \E x \in S : ~ItemHasFields(x) THEN Raise("AttributeError")
    ELSE IF ~QueryHas(q, "entity") \/ ~QueryHas(q, "relation")
    THEN Raise("AttributeError")
    ELSE Result(SetToSeq({x \in S : ToName(x) = q.entity /\ LabelOf(x) = q.relation}))

\* DummyQueryResolver.resolve(query): dispatch on the query's class; a class
\* with no branch falls off the end of the function, which returns None.
resolve(S, q) ==
    IF q.variant = "MatchQuery" THEN query_match(S, q)
    ELSE IF q.variant = "WhatQuery" THEN query_what(S, q)
    ELSE IF q.variant = "WhoQuery" THEN query_who(S, q)
    ELSE ReturnsNone

\* The queries put to the resolver.
StoreQueries ==
    {Query(v, <<e>>, <<l>>, <<>>) : v \in Variants, e \in {"A", "B"}, l \in Labels}

\* DummyQueryResolver.resolve(query) run on a receiver whose storage is the
\* live DummyStorage, followed by the iteration of the generator it returns.
\* get_query_resolver() cannot supply that receiver (see Instantiable); the
\* method is the one every concrete subclass of DummyQueryResolver inherits.
Resolve(q) ==
    /\ live
    /\ last' = Call("resolve", "", NoRelation, q, resolve(mem, q), "", -1)
    /\ UNCHANGED <<file, live, mem, asked, vis>>


(******************** visualization/__init__.py ****************************)

\* Scores are real numbers in the code; the model keeps floor(10 * score).
\* A Visualization(title, score, run): valid() is True.
Visualization(title, tenths) ==
    [kind |-> "vis", hasTitle |-> TRUE, title |-> title, score |-> tenths,
     valid |-> TRUE, err |-> ""]

\* Visualization.Empty(): score 0, title None, valid() False.
Empty ==
    [kind |-> "empty", hasTitle |-> FALSE, title |-> "", score |-> 0,
     valid |-> FALSE, err |-> ""]

\* visualize() raised.
VisRaise(e) ==
    [kind |-> "raise", hasTitle |-> FALSE, title |-> "", score |-> 0,
     valid |-> FALSE, err |-> e]

NotRun ==
    [kind |-> "idle", hasTitle |-> FALSE, title |-> "", score |-> 0,
     valid |-> FALSE, err |-> ""]

\* floor(10 * math.log2(n)) for n >= 1: the k with 2^k <= n^10 < 2^(k+1).
Log2Tenths(n) == CHOOSE k \in 0..(8 * n) : 2^k <= n^10 /\ n^10 < 2^(k + 1)

Max(a, b) == IF a >= b THEN a ELSE b

\* DummyVisualizer.visualize: always a descriptor, score 0.
DummyVisualizer(q, response) == Visualization("Returned tuples", 0)

\* GraphVisualizer.visualize: score max(0.1, log2(len(response))); log2(0)
\* raises ValueError.
GraphScoreNoFloor(n) == Log2Tenths(n)
GraphScore(n) == Max(1, Log2Tenths(n))

GraphVisualizer(q, response) ==
    IF Len(response) = 0 THEN VisRaise("ValueError")
    ELSE Visualization("Entity graph", GraphScore(Len(response)))

\* MapVisualizer.__init__: the region names of countries.geo.json.
Visualizables == {"Cuba"}

\* MapVisualizer.visualize: mapeable holds one entry per endpoint whose name
\* is a region; score len(mapeable) / len(response).
Mapeable(response) ==
    {<<i, side>> \in (1..Len(response)) \X {"from", "to"} :
        IF side = "from" THEN response[i].entity_from.name \in Visualizables
        ELSE response[i].entity_to.name \in Visualizables}

MapVisualizer(q, response) ==
    IF Mapeable(response) = {} THEN Empty
    ELSE Visualization("Map", (10 * Cardinality(Mapeable(response))) \div Len(response))

\* CountVisualizer.visualize.  field = query.attributes[0] is read before the
\* loop; inside it R.entity_from.get(attr) and R.get(field) are calls of a
\* method neither Entity nor Relation has.
CountMatches(q, response) ==
    {i \in 1..Len(response) :
        /\ response[i].label = "is_a"
        /\ response[i].entity_to.name \in Range(q.entities)}

CountVisualizer(q, response) ==
    IF q.variant # "HowManyQuery" THEN Empty
    ELSE IF Len(q.attributes) = 0 THEN VisRaise("IndexError")
    ELSE IF CountMatches(q, response) = {} THEN Empty
    ELSE IF ~HasMethod("get") THEN VisRaise("AttributeError")
    ELSE Visualization("Chart", 10 * Cardinality(CountMatches(q, response)))

\* PredictVisualizer.visualize.  The first loop reads relation.entity_from.attrs
\* and relation.attrs; the second calls .get(k) for every feature and target
\* attribute the first loop found.
PredictAttrs(r) == r.entity_from.attrs \cup r.attrs
PredictTargets(q, response) ==
    UNION {PredictAttrs(response[i]) \cap Range(q.attributes) : i \in 1..Len(response)}
PredictFeatures(q, response) ==
    UNION {PredictAttrs(response[i]) \ Range(q.attributes) :
             i \in {j \in 1..Len(response) :
                      PredictAttrs(response[j]) \cap Range(q.attributes) # {}}}

PredictVisualizer(q, response) ==
    IF q.variant # "PredictQuery" THEN Empty
    ELSE IF \E i \in 1..Len(response) :
               ~response[i].entity_from.hasAttrs \/ ~response[i].hasAttrs
    THEN VisRaise("AttributeError")
    ELSE IF /\ Len(response) > 0
            /\ PredictTargets(q, response) \cup PredictFeatures(q, response) # {}
            /\ ~HasMethod("get")
    THEN VisRaise("AttributeError")
    ELSE Visualization("Prediction", 10)

\* TimeseriesVisualizer.visualize, for a query whose groupby is empty.  A
\* relation from a TimeseriesEntry to a non-Source entity has its e.attrs read.
TimeseriesRows(response) ==
    {i \in 1..Len(response) :
        /\ response[i].entity_from.type = "TimeseriesEntry"
        /\ response[i].entity_to.type # "Source"}

TimeseriesData(q, response) ==
    {<<i, j>> \in TimeseriesRows(response) \X (1..Len(q.attributes)) :
        /\ "date" \in response[i].entity_from.attrs
        /\ q.attributes[j] \in response[i].entity_from.attrs}

TimeseriesVisualizer(q, response) ==
    IF \E i \in TimeseriesRows(response) : ~response[i].entity_from.hasAttrs
    THEN VisRaise("AttributeError")
    ELSE IF TimeseriesData(q, response) = {} THEN Empty
    ELSE Visualization("Timeseries", 20)

\* get_visualizers(): the six renderers.
VisualizerNames ==
    {"DummyVisualizer", "GraphVisualizer", "MapVisualizer", "CountVisualizer",
     "PredictVisualizer", "TimeseriesVisualizer"}

get_visualizers(q, response) ==
    [n \in VisualizerNames |->
        CASE n = "DummyVisualizer" -> DummyVisualizer(q, response)
          [] n = "GraphVisualizer" -> GraphVisualizer(q, response)
          [] n = "MapVisualizer" -> MapVisualizer(q, response)
          [] n = "CountVisualizer" -> CountVisualizer(q, response)
          [] n = "PredictVisualizer" -> PredictVisualizer(q, response)
          [] OTHER -> TimeseriesVisualizer(q, response)]

\* The relations and queries handed to the renderers.
EPersonClass == Entity("Person", "Class", FALSE, {})
ECuba == Entity("Cuba", "Country", FALSE, {})
ESeries == Entity("t1", "TimeseriesEntry", TRUE, {"date", "gdp"})
ESeriesBare == Entity("t0", "TimeseriesEntry", FALSE, {})
EAttrs == Entity("A", "Person", TRUE, {"gdp"})

VisRelations ==
    {Relation("works_at", EA, EB, FALSE, {}, 1),
     Relation("knows", EB, EA, FALSE, {}, 1),
     Relation("is_a", EA, EPersonClass, FALSE, {}, 1),
     Relation("born_in", EA, ECuba, FALSE, {}, 1),
     Relation("measures", ESeries, EB, FALSE, {}, 1),
     Relation("measures", ESeriesBare, EB, FALSE, {}, 1),
     Relation("works_at", EAttrs, EB, TRUE, {"weight"}, 1)}

Responses == UNION {[1..n -> VisRelations] : n \in 0..MaxResp}

VisQueries ==
    {Query(v, es, <<>>, as) :
        v \in Variants, es \in {<<>>, <<"Person">>},
        as \in {<<>>, <<"gdp">>, <<"weight", "gdp">>}}

\* No renderer is evaluated while the storage is exercised.
VisIdle ==
    [q |-> NoQuery, response |-> <<>>, ran |-> TRUE,
     outs |-> [n \in VisualizerNames |-> NotRun]]

\* A query and a response about to be handed to the renderers.
VisInput(q, response) ==
    [q |-> q, response |-> response, ran |-> FALSE,
     outs |-> [n \in VisualizerNames |-> NotRun]]

\* Every renderer of get_visualizers() evaluated on the query and response.
Visualize ==
    /\ ~vis.ran
    /\ vis' = [vis EXCEPT !.ran = TRUE,
                          !.outs = get_visualizers(vis.q, vis.response)]
    /\ UNCHANGED <<file, live, mem, asked, last>>

\* The renderers that report a candidate.
Applicable == {n \in VisualizerNames : vis.outs[n].valid}

Init ==
    /\ file \in {Missing, Corrupt, Pickled({})}
    /\ live = FALSE
    /\ mem = {}
    /\ asked = {}
    /\ last = Call("init", "", NoRelation, NoQuery, Ok, "", -1)
    /\ vis = VisIdle

Next ==
    \/ Construct
    \/ \E cls \in ArgClasses, r \in StoreRelations : Store(cls, r)
    \/ Size
    \/ GetQueryResolver
    \/ \E q \in StoreQueries : Resolve(q)

Spec == Init /\ [][Next]_vars

VisInit ==
    /\ file = Missing
    /\ live = FALSE
    /\ mem = {}
    /\ asked = {}
    /\ last = Call("init", "", NoRelation, NoQuery, Ok, "", -1)
    /\ vis \in {VisInput(q, response) : q \in VisQueries, response \in Responses}

VisNext == Visualize

VisSpec == VisInit /\ [][VisNext]_vars

(****************************** claims *************************************)

KAB == RelationStr(Relation("works_at", EA, EB, FALSE, {}, 1))

Unmatched == Variants \ {"MatchQuery", "WhatQuery", "WhoQuery"}

\* C1: every store() of a Relation completes, and afterwards size is the
\* number of distinct (from, label, to) identities stored; storing one
\* identity again, with other attributes, leaves size as it was.
C1_StoreDedup ==
    (last.op = "store" /\ last.cls = "Relation")
        => (last.kind = "ok" /\ Cardinality(mem) = Cardinality(asked))

\* C2: get_query_resolver() yields a resolver, and resolve(q) on it returns a
\* list holding no two relations of the same identity (the same on each call
\* while nothing is stored in between).
C2_ResolveDedup ==
    /\ last.op = "get_query_resolver" => last.kind = "ok"
    /\ last.op = "resolve" =>
          /\ last.kind = "result"
          /\ \A i, j \in 1..Len(last.rels) :
                last.rels[i].str = last.rels[j].str => i = j

\* C3: once (A)-[works_at]->(B) alone has been stored, What(A, works_at) and
\* Who(B, works_at) return exactly it, and Who(A, works_at) and
\* What(B, works_at) return nothing.
C3_Directional ==
    (last.op = "resolve" /\ asked = {KAB} /\ last.q.relations = <<"works_at">>
     /\ last.q.variant \in {"WhatQuery", "WhoQuery"})
        => /\ last.kind = "result"
           /\ Keys(Range(last.rels)) =
                IF (last.q.variant = "WhatQuery") = (last.q.entities = <<"A">>)
                THEN {KAB} ELSE {}

\* C4: a MatchQuery returns exactly the stored relations whose from-name,
\* label or to-name is one of the query's terms.
C4_MatchOr ==
    (last.op = "resolve" /\ last.q.variant = "MatchQuery")
        => /\ last.kind = "result"
           /\ LET T == Range(last.q.entities) \cup Range(last.q.relations)
              IN Range(last.rels) =
                   {x \in mem : FromName(x) \in T \/ LabelOf(x) \in T \/ ToName(x) \in T}

\* C5: a DummyStorage constructed after a relation was stored holds the set
\* the first one held, the stored relation included.
C5_ReloadSame ==
    [][(last.op = "store" /\ last.cls = "Relation"
        /\ last'.op = "construct" /\ last'.kind = "ok")
          => (mem' = mem /\ RelationStr(last.x) \in Keys(mem'))]_vars

\* A response was rendered that is non-empty and holds no region name, no
\* is_a relation and no TimeseriesEntry.
PlainResponse ==
    /\ vis.ran
    /\ Len(vis.response) > 0
    /\ \A i \in 1..Len(vis.response) :
          /\ vis.response[i].label # "is_a"
          /\ vis.response[i].entity_from.name \notin Visualizables
          /\ vis.response[i].entity_to.name \notin Visualizables
          /\ vis.response[i].entity_from.type # "TimeseriesEntry"
          /\ vis.response[i].entity_to.type # "TimeseriesEntry"

\* C6, as stated: for a non-empty response with no region name, no is_a
\* relation and no TimeseriesEntry, DummyVisualizer is the only renderer that
\* reports a candidate.
C6_OnlyDummy == PlainResponse => Applicable = {"DummyVisualizer"}

\* C6, amended: for such a response DummyVisualizer reports a candidate of
\* score 0 and GraphVisualizer one of score at least 0.1, which ranks above
\* it; MapVisualizer and TimeseriesVisualizer report the sentinel; and unless
\* the query is a PredictQuery or a HowManyQuery without attributes, no
\* renderer raises and these two are the only candidates.
C6_DummyAndGraph ==
    PlainResponse =>
        /\ vis.outs["DummyVisualizer"] = Visualization("Returned tuples", 0)
        /\ vis.outs["GraphVisualizer"].valid
        /\ vis.outs["GraphVisualizer"].score >= 1
        /\ vis.outs["GraphVisualizer"].score > vis.outs["DummyVisualizer"].score
        /\ vis.outs["MapVisualizer"] = Empty
        /\ vis.outs["TimeseriesVisualizer"] = Empty
        /\ (/\ vis.q.variant # "PredictQuery"
            /\ ~(vis.q.variant = "HowManyQuery" /\ vis.q.attributes = <<>>))
              => /\ Applicable = {"DummyVisualizer", "GraphVisualizer"}
                 /\ \A n \in VisualizerNames : vis.outs[n].kind # "raise"

\* C6 witness: a one-relation plain response to a MatchQuery, for which the
\* candidates are the tuple listing and the entity graph.
C6_Witness ==
    /\ PlainResponse
    /\ Len(vis.response) = 1
    /\ vis.q.variant = "MatchQuery"
    /\ Applicable = {"DummyVisualizer", "GraphVisualizer"}
    /\ vis.outs["GraphVisualizer"].score = 1

\* C7: resolving a query of a variant with no matcher raises.
C7_UnknownVariantRaises ==
    (last.op = "resolve" /\ last.q.variant \in Unmatched) => last.kind = "raise"

\* C8: constructing a DummyStorage over a missing or corrupt snapshot file
\* does not raise and yields an empty store.
C8_LoadDegrades ==
    (last.op = "construct" /\ file.state \in {"missing", "corrupt"})
        => (last.kind = "ok" /\ live /\ mem = {})

\* C9: a store() whose snapshot write fails raises and leaves the in-memory
\* set as it was before the call.
C9_FailedWriteLeavesMemory ==
    [][(last'.op = "store" /\ last'.write \in {"open_fails", "dump_fails"})
          => (last'.kind = "raise" /\ mem' = mem)]_vars

\* C10: every renderer, on every query and response, returns the sentinel
\* (score 0, no title, not valid) or a descriptor with a title and a score of
\* at least 0; none raises.
C10_RenderersTotal ==
    vis.ran => \A n \in VisualizerNames :
        \/ vis.outs[n] = Empty
        \/ /\ vis.outs[n].kind = "vis"
           /\ vis.outs[n].hasTitle
           /\ vis.outs[n].score >= 0

====
